---- MODULE Spec2Model ----
(***************************************************************************)
(* Model of @harusame0616/result: the Result constructors succeed / fail,  *)
(* the shape detector isResult and the two adapters tryCatch and           *)
(* tryCatchAsync, as written in src/result.ts, next to the build output    *)
(* the package ships (dist/result.js).                                     *)
(*                                                                         *)
(* JavaScript values are records                                           *)
(*   [typ, prim, ref, success, data, error, extra]                         *)
(* typ is the kind of value, prim the primitive's content, ref the         *)
(* identity of an object ("new" for an object literal the library itself   *)
(* evaluates, "none" for primitives), and each of success / data / error / *)
(* extra is the set holding the value of the property of that name: empty  *)
(* if the property is absent ("name" in value is false).  Properties are   *)
(* plain data properties: accessors and proxies, whose reads can raise a   *)
(* fault, are not part of the value domain.                                *)
(***************************************************************************)
EXTENDS Naturals, Sequences, FiniteSets

\* Largest number of internal suspensions of the awaited computation.
MaxSuspend == 2

----------------------------------------------------------------------------
(* The value domain *)

Prim(t, p) ==
  [typ |-> t, prim |-> p, ref |-> "none",
   success |-> {}, data |-> {}, error |-> {}, extra |-> {}]

Obj(t, r, s, d, e, x) ==
  [typ |-> t, prim |-> "", ref |-> r,
   success |-> s, data |-> d, error |-> e, extra |-> x]

Undefined == Prim("undefined", "undefined")
Null      == Prim("null", "null")
True      == Prim("boolean", "true")
False     == Prim("boolean", "false")
Num42     == Prim("number", "42")
StrOk     == Prim("string", "ok")
StrCaught == Prim("string", "caught")
StrBoom   == Prim("string", "boom")

Prims == {Undefined, Null, True, False, Num42, StrOk}

\* Objects and arrays whose properties hold primitives.  The object with no
\* property at all stands for any record without the tag, e.g. an Error.
FlatObjects ==
  {Obj(t, "r1", s, d, e, x) :
     t \in {"object", "array"},
     s \in {{}, {True}, {False}, {Num42}},
     d \in {{}, {Undefined}, {Num42}},
     e \in {{}, {StrOk}},
     x \in {{}, {Num42}}}

\* Results whose payload is itself a Result.
InnerResults ==
  {Obj("object", "r1", {True}, {StrOk}, {}, {}),
   Obj("object", "r1", {False}, {}, {StrOk}, {})}

NestedObjects ==
  {Obj("object", "r2", {True}, {i}, {}, {}) : i \in InnerResults}
    \cup {Obj("object", "r2", {False}, {}, {i}, {}) : i \in InnerResults}

Values == Prims \cup FlatObjects \cup NestedObjects

\* The converters a caller can pass as onError: none, one that formats the
\* fault into a string, the identity, one that answers with a Result-shaped
\* record around the fault, and one that raises a fault of its own.
Converters == {"none", "const", "id", "wrap", "throws"}

\* typeof value
TypeOf(v) ==
  IF v.typ \in {"null", "array", "object"} THEN "object" ELSE v.typ

\* name in value
HasProp(v, name) ==
  CASE name = "success" -> v.success # {}
    [] name = "data"    -> v.data # {}
    [] name = "error"   -> v.error # {}
    [] OTHER            -> v.extra # {}

\* value.success, undefined if the property is absent
GetSuccess(v) == IF v.success = {} THEN Undefined ELSE CHOOSE s \in v.success : TRUE

\* the names of the properties present on a value
PropNames(v) ==
  {n \in {"success", "data", "error", "extra"} : HasProp(v, n)}

----------------------------------------------------------------------------
(* src/src/result.ts *)

\* succeed with a missing argument defaulted to null
succeedNullish(args) ==
  LET data == IF Len(args) = 0 THEN Null ELSE args[1]
  IN  Obj("object", "new", {True}, {data}, {}, {})

\* succeed(data?): args is the argument list, of length 0 or 1
succeed(args) ==
  LET data == IF Len(args) = 0 THEN Undefined ELSE args[1]
  IN  Obj("object", "new", {True}, {data}, {}, {})

\* fail that also writes a data property
failWithData(error) == Obj("object", "new", {False}, {Undefined}, {error}, {})

fail(error) == Obj("object", "new", {False}, {}, {error}, {})

\* isResult that does not match the sibling property to the tag
isResultLax(value) ==
  /\ TypeOf(value) = "object"
  /\ value # Null
  /\ HasProp(value, "success")
  /\ TypeOf(GetSuccess(value)) = "boolean"
  /\ (HasProp(value, "data") \/ HasProp(value, "error"))

\* isResult that tests the tag for truthiness instead of typeof "boolean"
isResultTruthyTag(value) ==
  /\ TypeOf(value) = "object"
  /\ value # Null
  /\ HasProp(value, "success")
  /\ \/ (GetSuccess(value) \notin {Undefined, Null, False} /\ HasProp(value, "data"))
     \/ (GetSuccess(value) \in {Undefined, Null, False} /\ HasProp(value, "error"))

isResult(value) ==
  /\ TypeOf(value) = "object"
  /\ value # Null
  /\ HasProp(value, "success")
  /\ TypeOf(GetSuccess(value)) = "boolean"
  /\ \/ (GetSuccess(value) = True /\ HasProp(value, "data"))
     \/ (GetSuccess(value) = False /\ HasProp(value, "error"))

\* fn(): the computation either returns fn.val or throws it
CallFn(fn) == [raised |-> fn.outcome = "throw", val |-> fn.val]

\* onError(error) for a supplied converter
CallOnError(onError, error) ==
  CASE onError = "const"  -> [raised |-> FALSE, val |-> StrCaught]
    [] onError = "id"     -> [raised |-> FALSE, val |-> error]
    [] onError = "wrap"   -> [raised |-> FALSE,
                              val |-> Obj("object", "r3", {False}, {}, {error}, {})]
    [] OTHER              -> [raised |-> TRUE, val |-> StrBoom]

\* How a call ends.  completion: "return" / "throw" for tryCatch,
\* "pending" / "fulfilled" / "rejected" for the promise of tryCatchAsync;
\* value: what is returned, thrown, resolved or rejected with; log: the
\* callbacks invoked so far, in order.
Ending(c, v, l) == [completion |-> c, value |-> v, log |-> l]

NotRun == Ending("none", Undefined, <<>>)

\* tryCatch that flattens a Result-shaped converter output
tryCatchFlattenError(fn, onError) ==
  LET r == CallFn(fn)
  IN  IF ~r.raised
      THEN IF isResult(r.val)
           THEN Ending("return", r.val, <<"fn">>)
           ELSE Ending("return", succeed(<<r.val>>), <<"fn">>)
      ELSE IF onError # "none"
           THEN LET errorValue == CallOnError(onError, r.val)
                IN  IF errorValue.raised
                    THEN Ending("throw", errorValue.val, <<"fn", "onError">>)
                    ELSE IF isResult(errorValue.val)
                         THEN Ending("return", errorValue.val, <<"fn", "onError">>)
                         ELSE Ending("return", fail(errorValue.val),
                                     <<"fn", "onError">>)
           ELSE Ending("return", fail(r.val), <<"fn">>)

\* tryCatch that flattens a thrown Result-shaped value
tryCatchFlattenThrown(fn, onError) ==
  LET r == CallFn(fn)
  IN  IF ~r.raised
      THEN IF isResult(r.val)
           THEN Ending("return", r.val, <<"fn">>)
           ELSE Ending("return", succeed(<<r.val>>), <<"fn">>)
      ELSE IF onError # "none"
           THEN LET errorValue == CallOnError(onError, r.val)
                IN  IF errorValue.raised
                    THEN Ending("throw", errorValue.val, <<"fn", "onError">>)
                    ELSE Ending("return", fail(errorValue.val), <<"fn", "onError">>)
           ELSE IF isResult(r.val)
                THEN Ending("return", r.val, <<"fn">>)
                ELSE Ending("return", fail(r.val), <<"fn">>)

\* tryCatch that rethrows the fault when no converter is supplied
tryCatchRethrow(fn, onError) ==
  LET r == CallFn(fn)
  IN  IF ~r.raised
      THEN IF isResult(r.val)
           THEN Ending("return", r.val, <<"fn">>)
           ELSE Ending("return", succeed(<<r.val>>), <<"fn">>)
      ELSE IF onError # "none"
           THEN LET errorValue == CallOnError(onError, r.val)
                IN  IF errorValue.raised
                    THEN Ending("throw", errorValue.val, <<"fn", "onError">>)
                    ELSE Ending("return", fail(errorValue.val), <<"fn", "onError">>)
           ELSE Ending("throw", r.val, <<"fn">>)

\* tryCatch that invokes fn a second time after a fault
tryCatchRetry(fn, onError) ==
  LET r == CallFn(fn)
  IN  IF ~r.raised
      THEN IF isResult(r.val)
           THEN Ending("return", r.val, <<"fn">>)
           ELSE Ending("return", succeed(<<r.val>>), <<"fn">>)
      ELSE IF onError # "none"
           THEN LET errorValue == CallOnError(onError, r.val)
                IN  IF errorValue.raised
                    THEN Ending("throw", errorValue.val, <<"fn", "fn", "onError">>)
                    ELSE Ending("return", fail(errorValue.val),
                                <<"fn", "fn", "onError">>)
           ELSE Ending("return", fail(r.val), <<"fn", "fn">>)

tryCatch(fn, onError) ==
  LET r == CallFn(fn)
  IN  IF ~r.raised
      THEN LET result == r.val
           IN  IF isResult(result)
               THEN Ending("return", result, <<"fn">>)
               ELSE Ending("return", succeed(<<result>>), <<"fn">>)
      ELSE LET error == r.val
           IN  IF onError # "none"
               THEN LET errorValue == CallOnError(onError, error)
                    IN  IF errorValue.raised
                        THEN Ending("throw", errorValue.val, <<"fn", "onError">>)
                        ELSE Ending("return", fail(errorValue.val),
                                    <<"fn", "onError">>)
               ELSE Ending("return", fail(error), <<"fn">>)

----------------------------------------------------------------------------
(* The build output, dist/result.js *)

builtSucceed(args) ==
  LET data == IF Len(args) = 0 THEN Undefined ELSE args[1]
  IN  Obj("object", "new", {True}, {data}, {}, {})

builtFail(error) == Obj("object", "new", {False}, {}, {error}, {})

builtTryCatch(fn, onError) ==
  LET r == CallFn(fn)
  IN  IF ~r.raised
      THEN Ending("return", builtSucceed(<<r.val>>), <<"fn">>)
      ELSE LET error == r.val
           IN  IF onError # "none"
               THEN LET errorValue == CallOnError(onError, error)
                    IN  IF errorValue.raised
                        THEN Ending("throw", errorValue.val, <<"fn", "onError">>)
                        ELSE Ending("return", builtFail(errorValue.val),
                                    <<"fn", "onError">>)
               ELSE Ending("return", builtFail(error), <<"fn">>)

----------------------------------------------------------------------------
(* State *)

VARIABLES
  impl,      \* which module the caller loaded: "source" or "built"
  fn,        \* the computation: [outcome, val, suspends]
  onError,   \* the converter
  made,      \* the last constructor call: [op, nargs, out]
  sres,      \* the ending of tryCatch(fn, onError), NotRun before the call
  apc,       \* position of tryCatchAsync: "idle", "awaiting", "settled"
  remaining, \* suspensions the awaited computation still goes through
  ares       \* the settlement of the promise of tryCatchAsync(fn, onError)

vars == <<impl, fn, onError, made, sres, apc, remaining, ares>>

Computations ==
  [outcome : {"return", "throw"}, val : Values, suspends : 0..MaxSuspend]

Init ==
  /\ impl \in {"source", "built"}
  /\ fn \in Computations
  /\ onError \in Converters
  /\ made = [op |-> "none", nargs |-> 0, out |-> Undefined]
  /\ sres = NotRun
  /\ apc = "idle"
  /\ remaining = 0
  /\ ares = NotRun

\* succeed() and succeed(fn.val)
CallSucceed(n) ==
  /\ LET args == IF n = 0 THEN <<>> ELSE <<fn.val>>
     IN  made' = [op |-> "succeed", nargs |-> n,
                  out |-> IF impl = "source" THEN succeed(args)
                                             ELSE builtSucceed(args)]
  /\ UNCHANGED <<impl, fn, onError, sres, apc, remaining, ares>>

\* fail(fn.val)
CallFail ==
  /\ made' = [op |-> "fail", nargs |-> 1,
              out |-> IF impl = "source" THEN fail(fn.val)
                                         ELSE builtFail(fn.val)]
  /\ UNCHANGED <<impl, fn, onError, sres, apc, remaining, ares>>

\* tryCatch(fn, onError) of src/result.ts, run to completion
CallTryCatch ==
  /\ impl = "source"
  /\ sres = NotRun
  /\ sres' = tryCatch(fn, onError)
  /\ UNCHANGED <<impl, fn, onError, made, apc, remaining, ares>>

\* tryCatch(fn, onError) of dist/result.js, run to completion
CallBuiltTryCatch ==
  /\ impl = "built"
  /\ sres = NotRun
  /\ sres' = builtTryCatch(fn, onError)
  /\ UNCHANGED <<impl, fn, onError, made, apc, remaining, ares>>

\* tryCatchAsync(fn, onError) up to its await (the same in both modules):
\* fn is invoked and hands back a promise, the caller gets a pending promise
tryCatchAsync ==
  /\ apc = "idle"
  /\ apc' = "awaiting"
  /\ remaining' = fn.suspends
  /\ ares' = Ending("pending", Undefined, <<"fn">>)
  /\ UNCHANGED <<impl, fn, onError, made, sres>>

\* the awaited computation suspends once more before it settles
FnSuspend ==
  /\ apc = "awaiting"
  /\ remaining > 0
  /\ remaining' = remaining - 1
  /\ UNCHANGED <<impl, fn, onError, made, sres, apc, ares>>

\* AwaitResume that wraps whatever the computation yields
AwaitResumeNoFlatten ==
  /\ impl = "source"
  /\ apc = "awaiting"
  /\ remaining = 0
  /\ apc' = "settled"
  /\ IF fn.outcome = "return"
     THEN ares' = Ending("fulfilled", succeed(<<fn.val>>), ares.log)
     ELSE IF onError # "none"
          THEN LET errorValue == CallOnError(onError, fn.val)
               IN  IF errorValue.raised
                   THEN ares' = Ending("rejected", errorValue.val,
                                       Append(ares.log, "onError"))
                   ELSE ares' = Ending("fulfilled", fail(errorValue.val),
                                       Append(ares.log, "onError"))
          ELSE ares' = Ending("fulfilled", fail(fn.val), ares.log)
  /\ UNCHANGED <<impl, fn, onError, made, sres, remaining>>

\* src/result.ts: the promise of fn settled; await hands its value to the
\* try block or raises its fault into the catch block, and the rest of the
\* async function runs to completion
AwaitResume ==
  /\ impl = "source"
  /\ apc = "awaiting"
  /\ remaining = 0
  /\ apc' = "settled"
  /\ IF fn.outcome = "return"
     THEN IF isResult(fn.val)
          THEN ares' = Ending("fulfilled", fn.val, ares.log)
          ELSE ares' = Ending("fulfilled", succeed(<<fn.val>>), ares.log)
     ELSE IF onError # "none"
          THEN LET errorValue == CallOnError(onError, fn.val)
               IN  IF errorValue.raised
                   THEN ares' = Ending("rejected", errorValue.val,
                                       Append(ares.log, "onError"))
                   ELSE ares' = Ending("fulfilled", fail(errorValue.val),
                                       Append(ares.log, "onError"))
          ELSE ares' = Ending("fulfilled", fail(fn.val), ares.log)
  /\ UNCHANGED <<impl, fn, onError, made, sres, remaining>>

\* dist/result.js: the same step of the built tryCatchAsync
BuiltAwaitResume ==
  /\ impl = "built"
  /\ apc = "awaiting"
  /\ remaining = 0
  /\ apc' = "settled"
  /\ IF fn.outcome = "return"
     THEN ares' = Ending("fulfilled", builtSucceed(<<fn.val>>), ares.log)
     ELSE IF onError # "none"
          THEN LET errorValue == CallOnError(onError, fn.val)
               IN  IF errorValue.raised
                   THEN ares' = Ending("rejected", errorValue.val,
                                       Append(ares.log, "onError"))
                   ELSE ares' = Ending("fulfilled", builtFail(errorValue.val),
                                       Append(ares.log, "onError"))
          ELSE ares' = Ending("fulfilled", builtFail(fn.val), ares.log)
  /\ UNCHANGED <<impl, fn, onError, made, sres, remaining>>

Next ==
  \/ \E n \in {0, 1} : CallSucceed(n)
  \/ CallFail
  \/ CallTryCatch
  \/ CallBuiltTryCatch
  \/ tryCatchAsync
  \/ FnSuspend
  \/ AwaitResume
  \/ BuiltAwaitResume

Spec == Init /\ [][Next]_vars

----------------------------------------------------------------------------
(* What the claims speak of *)

\* v belongs to the type Result<unknown, unknown> = Success | Failure:
\* a structured value with success: true and data, or success: false and
\* error (further properties do not take a value out of a structural type).
InResultType(v) ==
  /\ v.typ \in {"object", "array"}
  /\ \/ (v.success = {True} /\ v.data # {})
     \/ (v.success = {False} /\ v.error # {})

\* v is what succeed(x) or fail(x) evaluates to, for some x
Constructed(v) ==
  /\ v.typ = "object"
  /\ v.extra = {}
  /\ \/ (v.success = {True} /\ v.data # {} /\ v.error = {})
     \/ (v.success = {False} /\ v.error # {} /\ v.data = {})

\* the shape section 4.2 of the specification describes: as InResultType,
\* but never an array
RecordShape(v) == InResultType(v) /\ v.typ # "array"

SyncDone == sres.completion # "none"
AsyncDone == apc = "settled"

Count(log, name) == Cardinality({i \in DOMAIN log : log[i] = name})

----------------------------------------------------------------------------
(* The claims *)

\* C1: a computation that returns succeed(x) or fail(x) without throwing
\* gets that very value back from tryCatch, never a Success around it.
C1_NoDoubleWrap ==
  (SyncDone /\ fn.outcome = "return" /\ Constructed(fn.val))
    => (sres.completion = "return" /\ sres.value = fn.val)

\* C2 as stated: whatever fn and onError are, tryCatch returns a Result and
\* never throws, and the promise of tryCatchAsync is fulfilled with a Result
\* and never rejected.
C2_Total ==
  /\ SyncDone => (sres.completion = "return" /\ InResultType(sres.value))
  /\ AsyncDone => (ares.completion = "fulfilled" /\ InResultType(ares.value))

\* C2 amended: the adapters return (resolve to) a Result unless the supplied
\* converter itself raises a fault while converting a fault of fn; exactly
\* then the converter's fault is thrown by tryCatch and the promise of
\* tryCatchAsync is rejected with it.
C2_TotalUnlessConverterThrows ==
  LET convThrows == /\ fn.outcome = "throw"
                    /\ onError # "none"
                    /\ CallOnError(onError, fn.val).raised
  IN  /\ SyncDone =>
           IF convThrows
           THEN sres.completion = "throw"
                /\ sres.value = CallOnError(onError, fn.val).val
           ELSE sres.completion = "return" /\ InResultType(sres.value)
      /\ AsyncDone =>
           IF convThrows
           THEN ares.completion = "rejected"
                /\ ares.value = CallOnError(onError, fn.val).val
           ELSE ares.completion = "fulfilled" /\ InResultType(ares.value)

C2_Witness ==
  /\ SyncDone /\ AsyncDone
  /\ fn.outcome = "throw" /\ onError = "throws"
  /\ sres.completion = "throw" /\ ares.completion = "rejected"

\* C3: a computation that returns a value v outside the Result type makes
\* tryCatch return a Success whose data is v itself.
C3_WrapsPlainValue ==
  (SyncDone /\ fn.outcome = "return" /\ ~InResultType(fn.val))
    => /\ sres.completion = "return"
       /\ PropNames(sres.value) = {"success", "data"}
       /\ sres.value.success = {True}
       /\ sres.value.data = {fn.val}

C3_Witness ==
  /\ SyncDone /\ fn.outcome = "return"
  /\ fn.val.success = {True} /\ fn.val.data = {} /\ fn.val.error # {}
  /\ sres.value.data = {fn.val}

\* C4: a computation that throws t, with a converter c that answers, makes
\* tryCatch return the Failure whose error is c(t) itself, also when c(t)
\* has the shape of a Result.
C4_ConvertedFault ==
  (SyncDone /\ fn.outcome = "throw" /\ onError # "none"
     /\ ~CallOnError(onError, fn.val).raised)
    => /\ sres.completion = "return"
       /\ PropNames(sres.value) = {"success", "error"}
       /\ sres.value.success = {False}
       /\ sres.value.error = {CallOnError(onError, fn.val).val}

C4_Witness ==
  /\ SyncDone /\ fn.outcome = "throw" /\ onError = "wrap"
  /\ \E e \in sres.value.error : InResultType(e) /\ e.error = {fn.val}

\* C5: a computation that throws t, with no converter, makes tryCatch
\* return the Failure whose error is t itself, also when t has the shape of
\* a Result.
C5_RawFault ==
  (SyncDone /\ fn.outcome = "throw" /\ onError = "none")
    => /\ sres.completion = "return"
       /\ PropNames(sres.value) = {"success", "error"}
       /\ sres.value.success = {False}
       /\ sres.value.error = {fn.val}

C5_Witness ==
  /\ SyncDone /\ fn.outcome = "throw" /\ onError = "none"
  /\ Constructed(fn.val)
  /\ sres.value.error = {fn.val}

\* C6: once the promise of tryCatchAsync has settled, it is fulfilled with
\* the same Result that tryCatch returns for the computation that returns
\* the same value or throws the same fault, however often the asynchronous
\* computation suspended first.
C6_AsyncMatchesSync ==
  (SyncDone /\ AsyncDone /\ sres.completion = "return")
    => (ares.completion = "fulfilled" /\ ares.value = sres.value)

C6_Witness ==
  /\ SyncDone /\ AsyncDone
  /\ fn.suspends > 0 /\ fn.outcome = "throw" /\ onError = "id"
  /\ ares.completion = "fulfilled" /\ ares.value = sres.value

\* C7: succeed(v) is tagged true and holds v as data, succeed() is tagged
\* true and holds undefined as data, fail(e) is tagged false and holds e as
\* error, for every value including null and undefined.
C7_Constructors ==
  /\ (made.op = "succeed" /\ made.nargs = 1)
       => (made.out.success = {True} /\ made.out.data = {fn.val})
  /\ (made.op = "succeed" /\ made.nargs = 0)
       => (made.out.success = {True} /\ made.out.data = {Undefined})
  /\ made.op = "fail"
       => (made.out.success = {False} /\ made.out.error = {fn.val})

C7_Witness ==
  made.op = "succeed" /\ made.nargs = 0 /\ made.out.data = {Undefined}

\* C8 as stated: isResult accepts exactly the non-array, non-null records
\* that carry a boolean tag with its sibling property, and the adapters
\* flatten exactly those and wrap every other value, every array included.
C8_RecordShapeOnly ==
  /\ (impl = "source" /\ SyncDone /\ fn.outcome = "return")
       => /\ isResult(fn.val) <=> RecordShape(fn.val)
          /\ (sres.value = fn.val) <=> RecordShape(fn.val)
  /\ (impl = "source" /\ AsyncDone /\ fn.outcome = "return")
       => ((ares.value = fn.val) <=> RecordShape(fn.val))

\* C8 amended: isResult accepts exactly the non-null values of typeof
\* "object", arrays included, that carry a boolean tag with its sibling
\* property; the adapters flatten exactly those and wrap every other value.
\* An array is wrapped only if it lacks the tag or the sibling property.
C8_ObjectShape ==
  /\ (impl = "source" /\ SyncDone /\ fn.outcome = "return")
       => /\ isResult(fn.val) <=> InResultType(fn.val)
          /\ (sres.value = fn.val) <=> InResultType(fn.val)
          /\ ~InResultType(fn.val) => sres.value.data = {fn.val}
  /\ (impl = "source" /\ AsyncDone /\ fn.outcome = "return")
       => /\ (ares.value = fn.val) <=> InResultType(fn.val)
          /\ ~InResultType(fn.val) => ares.value.data = {fn.val}

C8_Witness ==
  /\ impl = "source" /\ SyncDone /\ fn.outcome = "return"
  /\ fn.val.typ = "array" /\ InResultType(fn.val)
  /\ sres.value = fn.val

\* C9 as stated: every value the constructors and the adapters hand out has
\* the tag and exactly one of data / error, as the tag says, and no other
\* property.
C9_ExactFields ==
  /\ made.op # "none" => Constructed(made.out)
  /\ (SyncDone /\ sres.completion = "return") => Constructed(sres.value)
  /\ (AsyncDone /\ ares.completion = "fulfilled") => Constructed(ares.value)

\* C9 amended: every value the constructors build, and every value the
\* adapters build by wrapping or on the fault path, has the tag and exactly
\* the one property the tag calls for; a value an adapter returns through
\* flattening is the computation's own value, which has the tag and the
\* property the tag calls for and may have any further property.
C9_ExactFieldsUnlessFlattened ==
  LET Flattened(v) ==
        fn.outcome = "return" /\ v = fn.val /\ InResultType(v)
  IN  /\ made.op # "none" => Constructed(made.out)
      /\ (SyncDone /\ sres.completion = "return")
           => (Constructed(sres.value) \/ Flattened(sres.value))
      /\ (AsyncDone /\ ares.completion = "fulfilled")
           => (Constructed(ares.value) \/ Flattened(ares.value))

C9_Witness ==
  /\ SyncDone /\ AsyncDone /\ fn.outcome = "return"
  /\ sres.value = fn.val /\ ares.value = fn.val
  /\ fn.val.extra # {} /\ fn.val.data # {} /\ fn.val.error # {}

====
